---------------------------- MODULE Spec2Model ----------------------------
(***************************************************************************)
(* Rotation control subsystem of tor-clash: the process supervisor         *)
(* (core/process_manager.py, core/proxy_manager.py), the interruptible     *)
(* scheduling loop and the IP-change executor (Rotator.py), and the        *)
(* shutdown path (RotatorApp.cleanup and its three triggers).              *)
(*                                                                         *)
(* Threads: the Kivy main thread (build, the widget handlers, cleanup),    *)
(* the "rotator-main" loop thread, and the two pool workers.  Time is      *)
(* counted in seconds; the loop's own computation takes no time, so the    *)
(* clock advances only while the loop thread is blocked in one of its two  *)
(* timed waits (or has ended).                                             *)
(***************************************************************************)
EXTENDS Integers, Sequences, FiniteSets, TLC

\* ------------------------------------------------------------ bounds
\* Seconds the clock may reach under SchedSpec (MaxTime) and under the
\* shutdown specifications (MaxFaultTime); tasks the button and the clock
\* may add to a queue (MaxQueue); signals delivered; setup wizards finished.
MaxTime == 3
MaxFaultTime == 1
MaxQueue == 1
MaxSignals == 1
MaxSetups == 1

\* ------------------------------------------------- program constants
\* Times and interval values are held in hundredths (the validator's ranges
\* go down to 0.01); the clock advances in whole seconds.
Second == 100
DEFAULT_INTERVAL == 1
SecondsPerHour == 3600
max_workers == 2
IdleCheckSeconds == 1
StartupDelay == 1
SetupDelay == 2

\* What the user types into the interval field and picks in the unit menu
\* before pressing "apply": value in hundredths, unit, and whether the text
\* parses as a float.  Units: "sec" = секунд, "min" = минут, "hour" = часов.
ApplyInputs ==
    { [text |-> "num", v |-> 1 * Second, unit |-> "sec"],
      [text |-> "num", v |-> 2 * Second, unit |-> "sec"],
      [text |-> "num", v |-> 5, unit |-> "min"],
      [text |-> "num", v |-> 0, unit |-> "sec"],
      [text |-> "num", v |-> 25 * Second, unit |-> "hour"],
      [text |-> "num", v |-> 1 * Second, unit |-> "day"],
      [text |-> "abc", v |-> 0, unit |-> "sec"] }

Daemons == {"tor", "clash"}
Handles == {"None", "alive", "exited"}
PopenOutcomes == {"ok", "FileNotFoundError", "PermissionError", "Exception"}

\* What the file system and the OS answer to one start_tor / start_clash:
\* the executable exists, the torrc exists, what Popen does.
TorStartInputs ==
    { [exe |-> TRUE, rc |-> TRUE, popen |-> o] : o \in PopenOutcomes }
    \cup { [exe |-> FALSE, rc |-> TRUE, popen |-> "ok"],
           [exe |-> TRUE, rc |-> FALSE, popen |-> "ok"] }

ClashStartInputs ==
    { [exe |-> TRUE, popen |-> o] : o \in PopenOutcomes }
    \cup { [exe |-> FALSE, popen |-> "ok"] }

\* The environment a specification explores: the answers a start may get,
\* the ways a stop may go, whether a registry write takes effect, what the
\* probe may return, and what the user may type.  NominalEnv is a machine
\* on which the daemons launch and stop as asked and the address service
\* replies with an address or not at all; FaultyEnv lets every start, stop,
\* write and reply go wrong; ShutdownEnv is a machine whose daemons launch
\* but may resist stopping.
NominalEnv ==
    [ tor |-> { [exe |-> TRUE, rc |-> TRUE, popen |-> "ok"] },
      clash |-> { [exe |-> TRUE, popen |-> "ok"] },
      stop |-> {"graceful", "forced", "noop"},
      reg |-> {TRUE},
      probe |-> {"addr", "unknown"},
      apply |-> ApplyInputs ]

FaultyEnv ==
    [ tor |-> TorStartInputs,
      clash |-> ClashStartInputs,
      stop |-> {"graceful", "forced", "kill_error", "noop"},
      reg |-> BOOLEAN,
      probe |-> {"addr", "malformed", "empty", "unknown"},
      apply |-> ApplyInputs ]

\* CallEnv adds the process that does not exit when killed; WritableEnv is
\* CallEnv on a machine whose registry writes take effect.
CallEnv == [ FaultyEnv EXCEPT !.stop = @ \cup {"stuck"} ]

WritableEnv == [ CallEnv EXCEPT !.reg = {TRUE} ]

ManualEnv ==
    [ NominalEnv EXCEPT !.probe = {"addr"},
                        !.apply = { inp \in ApplyInputs :
                                      inp.unit = "sec" /\ inp.v # 1 * Second } ]

ShutdownEnv ==
    [ NominalEnv EXCEPT !.stop = FaultyEnv.stop,
                        !.reg = BOOLEAN,
                        !.apply = { inp \in ApplyInputs :
                                      inp.unit = "sec" /\ inp.v # 2 * Second } ]

\* A machine like ManualEnv whose user types 1 s, 0 s or no number.
ReconfigureEnv == [ ManualEnv EXCEPT !.apply = ShutdownEnv.apply ]

VARIABLES
    configured,        \* process_manager / ip_checker are set (not None)
    enabled,           \* RotatorState.enabled
    interval_seconds,  \* RotatorState.interval_seconds
    tor_process,       \* RotatorState.tor_process: None, alive, exited
    clash_process,     \* RotatorState.clash_process
    running,           \* OS processes alive, per daemon
    proxy,             \* OS setting ProxyEnable
    stop_event,        \* threading.Event
    rotation_event,    \* threading.Event
    shutdown,          \* ThreadPoolExecutor._shutdown
    queue,             \* the pool's work queue: pending _change_ip_async tasks
    workers,           \* the pool's two threads, each running one task or free
    switch_active,     \* MDSwitch.active
    apply_disabled,    \* apply_btn.disabled
    clock,             \* Clock.schedule_once(change_ip, d): due times
    loopPc,            \* position of the rotator thread
    last_change,       \* rotator local
    elapsed,           \* rotator local
    wake_at,           \* deadline of the timed wait the rotator is blocked in
    now,               \* time.time() since start, in hundredths
    uiPc,              \* position of the main thread
    trigger,           \* which source invoked the cleanup in progress
    exitCode,          \* process exit status; -1 while not decided
    raised,            \* exception that ended the application, or "none"
    outcomes,          \* how each cleanup invocation so far ended
    signals,           \* SIGINT/SIGTERM deliveries so far
    setups,            \* completed setup wizards so far
    enabled_at,        \* when the switch turned rotation back on with the
                       \* loop in its idle check, until the next scheduled
                       \* rotation; -1 otherwise
    last_call,         \* the latest direct call of the supervisor or of the
                       \* probe: operation, state before, answers, result
    callers,           \* threads inside a start_tor / stop_tor call that
                       \* runs concurrently with another: position, locals
    procs,             \* the tor processes those calls launched, by number
    tor_ref,           \* which of them state.tor_process refers to; 0: none
    constructions      \* what each ProcessManager() so far returned

vars == <<configured, enabled, interval_seconds, tor_process, clash_process,
          running, proxy, stop_event, rotation_event, shutdown,
          queue, workers, switch_active, apply_disabled, clock,
          loopPc, last_change, elapsed, wake_at, now, uiPc, trigger,
          exitCode, raised, outcomes, signals, setups, enabled_at,
          last_call, callers, procs, tor_ref, constructions>>

pmVars == <<tor_process, clash_process, running, proxy>>
loopVars == <<loopPc, last_change, elapsed, wake_at>>
poolVars == <<shutdown, queue, workers>>
exitVars == <<trigger, exitCode, raised, outcomes, signals>>
callVars == <<last_call, callers, procs, tor_ref>>
harnessVars == <<callVars, constructions>>

\* ------------------------------------------------ core/proxy_manager.py
\* enable_system_proxy / disable_system_proxy: the registry write either
\* takes effect or fails; a failure is logged and swallowed.
enable_system_proxy(p, writable) == IF writable THEN TRUE ELSE p

disable_system_proxy(p, writable) == IF writable THEN FALSE ELSE p

\* ---------------------------------------------- core/process_manager.py
\* RotatorState(): the dataclass defaults.
RotatorState ==
    [tor_process |-> "None", clash_process |-> "None", enabled |-> TRUE,
     interval_seconds |-> DEFAULT_INTERVAL * SecondsPerHour * Second]

\* A constructor that makes a new supervisor with a new state every time.
ProcessManager_new_Fresh(instance, state) ==
    [instance |-> instance + 1, created |-> TRUE, before |-> state,
     state |-> RotatorState]

\* ProcessManager.__new__ with cls._instance = instance (0: None, else the
\* object's number) and that object's state: the object returned, whether a
\* RotatorState was created, the state before and the state after.
ProcessManager_new(instance, state) ==
    IF instance = 0
       THEN [instance |-> 1, created |-> TRUE, before |-> state,
             state |-> RotatorState]
       ELSE [instance |-> instance, created |-> FALSE, before |-> state,
             state |-> state]

\* A start launches only when there is no handle or the handle's process
\* has exited (poll() is not None).
NeedsLaunch_Always(h) == TRUE

NeedsLaunch(h) == h = "None" \/ h = "exited"

\* A start_tor that drops the handle when the launch fails.
start_tor_ClearOnFail(h, exeExists, rcExists, popen) ==
    IF exeExists /\ rcExists /\ popen = "ok"
       THEN [h |-> "alive", ret |-> TRUE, spawned |-> h # "alive"]
       ELSE [h |-> "None", ret |-> FALSE, spawned |-> FALSE]

\* start_tor: [h: handle after, ret: return value, spawned: a process was made]
start_tor(h, exeExists, rcExists, popen) ==
    IF ~exeExists \/ ~rcExists
       THEN [h |-> h, ret |-> FALSE, spawned |-> FALSE]
    ELSE IF NeedsLaunch(h)
       THEN IF popen = "ok"
               THEN [h |-> "alive", ret |-> TRUE, spawned |-> TRUE]
               ELSE [h |-> h, ret |-> FALSE, spawned |-> FALSE]
    ELSE [h |-> h, ret |-> TRUE, spawned |-> FALSE]

\* A start_clash for which a failed registry write is a failed start.
start_clash_WriteFatal(h, p, exeExists, popen, writable) ==
    IF exeExists /\ (h = "None" \/ h = "exited") /\ popen = "ok"
       THEN [h |-> "alive", proxy |-> enable_system_proxy(p, writable),
             ret |-> writable, spawned |-> TRUE]
       ELSE [h |-> h, proxy |-> p, ret |-> exeExists /\ h = "alive",
             spawned |-> FALSE]

\* start_clash: as start_tor, plus the proxy write after a launch.
start_clash(h, p, exeExists, popen, writable) ==
    IF ~exeExists
       THEN [h |-> h, proxy |-> p, ret |-> FALSE, spawned |-> FALSE]
    ELSE IF NeedsLaunch(h)
       THEN IF popen = "ok"
               THEN [h |-> "alive", proxy |-> enable_system_proxy(p, writable),
                     ret |-> TRUE, spawned |-> TRUE]
               ELSE [h |-> h, proxy |-> p, ret |-> FALSE, spawned |-> FALSE]
    ELSE [h |-> h, proxy |-> p, ret |-> TRUE, spawned |-> FALSE]

\* A stop that treats an absent handle as a live process.
StopOutcomes_Absent(h) == {"graceful", "forced", "kill_error"}

\* _stop_process: what can happen for a handle.  A live process is asked to
\* terminate and either exits within PROCESS_KILL_TIMEOUT ("graceful"), is
\* killed after the timeout and then exits ("forced"), is killed and does
\* not exit ("stuck"), or the kill itself raises ("kill_error"), which
\* nothing in the supervisor catches.
PROCESS_KILL_TIMEOUT == 5

StopOutcomes(h) ==
    IF h = "alive" THEN {"graceful", "forced", "kill_error", "stuck"}
                   ELSE {"noop"}

\* Seconds the timed wait of _stop_process lasts, at most.
StopWait(outcome) ==
    CASE outcome = "graceful" -> 0
      [] outcome = "noop" -> 0
      [] OTHER -> PROCESS_KILL_TIMEOUT

\* terminate() was sent; kill() was sent.
StopSignals(outcome) == outcome # "noop"

StopForces(outcome) == outcome \in {"forced", "kill_error", "stuck"}

StopRaises(outcome) == outcome = "kill_error"

\* A stop whose kill() is followed by process.wait(), which has no timeout,
\* returns when the process exits.
StopReturns(outcome) == outcome # "stuck"

\* The process is gone after a stop that did not raise.
StopKills(outcome) == outcome \in {"graceful", "forced"}

\* A stop_tor that clears the handle only after a graceful exit.
stop_tor_KeepKilled(h, outcome) ==
    IF outcome \in {"graceful", "noop"} THEN "None" ELSE h

\* A stop_clash that writes the setting only when it stopped a process.
stop_clash_WriteIfStopped(h, p, outcome, writable) ==
    IF StopRaises(outcome) \/ ~StopReturns(outcome)
       THEN [h |-> h, proxy |-> p]
       ELSE [h |-> "None",
             proxy |-> IF outcome = "noop"
                          THEN p ELSE disable_system_proxy(p, writable)]

\* stop_tor / stop_clash: the handle is cleared after _stop_process returns;
\* when it raises or does not return, the assignment is not reached.
stop_tor(h, outcome) ==
    IF StopRaises(outcome) \/ ~StopReturns(outcome) THEN h ELSE "None"

stop_clash(h, p, outcome, writable) ==
    IF StopRaises(outcome) \/ ~StopReturns(outcome)
       THEN [h |-> h, proxy |-> p]
       ELSE [h |-> "None", proxy |-> disable_system_proxy(p, writable)]

\* --------------------------------------------------- core/validator.py
Units == {"sec", "min", "hour"}

\* IntervalValidator.RANGES, in hundredths
RANGES(unit) ==
    CASE unit = "sec" -> <<1 * Second, 86400 * Second>>
      [] unit = "min" -> <<1, 1440 * Second>>
      [] unit = "hour" -> <<1, 24 * Second>>

\* IntervalValidator.MULTIPLIERS
MULTIPLIERS(unit) ==
    CASE unit = "sec" -> 1
      [] unit = "min" -> 60
      [] unit = "hour" -> 3600

\* A validator whose ranges exclude their end points.
validate_Exclusive(value, unit) ==
    IF unit \notin Units THEN "unknown_unit"
    ELSE IF ~(RANGES(unit)[1] < value /\ value < RANGES(unit)[2])
       THEN "out_of_range"
    ELSE "ok"

\* IntervalValidator.validate: "ok", "unknown_unit" or "out_of_range"
validate(value, unit) ==
    IF unit \notin Units THEN "unknown_unit"
    ELSE IF ~(RANGES(unit)[1] <= value /\ value <= RANGES(unit)[2])
       THEN "out_of_range"
    ELSE "ok"

\* A conversion that leaves the multiplier out.
to_seconds_Raw(value, unit) == value

\* IntervalValidator.to_seconds on values that are whole hundredths, where
\* the float product is the exact one to within rounding.
to_seconds(value, unit) == value * MULTIPLIERS(unit)

\* to_seconds multiplies floats, and a float product is rounded to the
\* significand's width.  A float is held here as a whole number of 1/Fine
\* hundredths with at most FloatBits significant bits (a double has 53).
FloatBits == 18
Fine == 128

RECURSIVE BitLength(_)
BitLength(n) == IF n = 0 THEN 0 ELSE 1 + BitLength(n \div 2)

\* Round to nearest, ties to even.
RoundToFloat(n) ==
    IF BitLength(n) <= FloatBits THEN n
    ELSE LET ulp == 2 ^ (BitLength(n) - FloatBits)
             q == n \div ulp
             r == n % ulp
         IN  IF 2 * r > ulp \/ (2 * r = ulp /\ q % 2 = 1)
                THEN (q + 1) * ulp
                ELSE q * ulp

\* A conversion with the multipliers of minutes and hours exchanged.
to_seconds_float_Swapped(value, unit) ==
    IF unit \notin Units THEN "KeyError"
    ELSE RoundToFloat(value * MULTIPLIERS(CASE unit = "min" -> "hour"
                                            [] unit = "hour" -> "min"
                                            [] OTHER -> unit))

\* IntervalValidator.to_seconds on floats; MULTIPLIERS[unit] raises KeyError
\* for a unit it does not hold.
to_seconds_float(value, unit) ==
    IF unit \notin Units THEN "KeyError"
    ELSE RoundToFloat(value * MULTIPLIERS(unit))

\* ------------------------------------------------ core/ip_checker.py
max_retries == 3
initial_delay == 1

\* What one request can do: a 2xx reply whose body is an address ("ok"), a
\* 2xx reply whose body is some other text ("malformed") or nothing
\* ("empty"), a non-2xx reply (raise_for_status raises HTTPError, a
\* RequestException), a ProxyError, another RequestException, or an
\* exception of another class.
AttemptOutcomes ==
    {"ok", "malformed", "empty", "HTTPError", "ProxyError",
     "RequestException", "Exception"}

\* One script per call: what each of the max_retries requests would do.
ProbeScripts == [1..max_retries -> AttemptOutcomes]

\* r.text.strip() of a 2xx reply, by kind of text.
Body(o) ==
    CASE o = "ok" -> "addr"
      [] o = "malformed" -> "malformed"
      [] o = "empty" -> "empty"

\* A probe that retries after every failure.
Handling_RetryAll(o) ==
    IF o \in {"ok", "malformed", "empty"} THEN "return" ELSE "retry"

\* Which branch of the try statement a request ends in: the return of the
\* body, one of the two retrying except clauses, or the clause that breaks.
Handling(o) ==
    CASE o \in {"ok", "malformed", "empty"} -> "return"
      [] o \in {"HTTPError", "ProxyError", "RequestException"} -> "retry"
      [] OTHER -> "break"

\* A probe that also sleeps after its last attempt.
SleepsAfter_Always(attempt) == TRUE

\* if attempt < self.max_retries - 1: a retryable failure is followed by a
\* sleep unless it was the last attempt.
SleepsAfter(attempt) == attempt < max_retries - 1

\* A probe whose every sleep is initial_delay long.
Delay_Constant(attempt) == initial_delay

\* delay = self.initial_delay * (2 ** attempt)
Delay(attempt) == initial_delay * (2 ^ attempt)

\* ClashIPChecker.get_ip from attempt number `attempt` (0-based, as in the
\* source) on: the text returned (a reply's body or the sentinel), the
\* number of the request whose body it is (0: none), the requests made,
\* the sleeps made (seconds of each, in order).
RECURSIVE get_ip_from(_, _, _, _)
get_ip_from(script, attempt, made, slept) ==
    IF attempt >= max_retries
       THEN [ip |-> "unknown", from |-> 0, attempts |-> made,
             slept |-> slept]
    ELSE LET o == script[attempt + 1] IN
         IF Handling(o) = "return"
            THEN [ip |-> Body(o), from |-> attempt + 1,
                  attempts |-> made + 1, slept |-> slept]
         ELSE IF Handling(o) = "break"
            THEN [ip |-> "unknown", from |-> 0, attempts |-> made + 1,
                  slept |-> slept]
         ELSE get_ip_from(script, attempt + 1, made + 1,
                          IF SleepsAfter(attempt)
                             THEN Append(slept, Delay(attempt))
                             ELSE slept)

get_ip(script) == get_ip_from(script, 0, 0, <<>>)

\* What a call of get_ip can return, over all scripts.
ProbeResults == { get_ip(script).ip : script \in ProbeScripts }

\* ------------------------------------------------------------ Rotator.py
\* A pool thread: what it is doing, how many control-channel exchanges and
\* probe calls its task has made, and the text the task will publish.
Free == [pc |-> "free", nctrl |-> 0, nprobe |-> 0, res |-> "none"]

\* A pool of three threads.
Workers_Three == 1..(max_workers + 1)

\* ThreadPoolExecutor(max_workers=2): the pool's threads.
Workers == 1..max_workers

\* Threads that call the supervisor at the same time, and a thread that is
\* in no call.
Threads == {"t1", "t2"}

Idle == [pc |-> "idle", op |-> "none", process |-> 0]

NoCall == [op |-> "none", returned |-> TRUE]

Init ==
    /\ configured \in BOOLEAN
    /\ enabled = TRUE
    /\ interval_seconds = DEFAULT_INTERVAL * SecondsPerHour * Second
    /\ tor_process = "None"
    /\ clash_process = "None"
    /\ running = [d \in Daemons |-> 0]
    /\ proxy = FALSE
    /\ stop_event = FALSE
    /\ rotation_event = FALSE
    /\ shutdown = FALSE
    /\ queue = <<>>
    /\ workers = [w \in Workers |-> Free]
    /\ switch_active = TRUE
    /\ apply_disabled = FALSE
    /\ clock = {}
    /\ loopPc = "unstarted"
    /\ last_change = 0
    /\ elapsed = 0
    /\ wake_at = 0
    /\ now = 0
    /\ uiPc = "build"
    /\ trigger = "none"
    /\ exitCode = -1
    /\ raised = "none"
    /\ outcomes = <<>>
    /\ signals = 0
    /\ setups = 0
    /\ enabled_at = -1
    /\ last_call = NoCall
    /\ callers = [t \in Threads |-> Idle]
    /\ procs = <<>>
    /\ tor_ref = 0
    /\ constructions = IF configured
                          THEN <<ProcessManager_new(0, RotatorState)>>
                          ELSE <<>>

\* The state after start_tor() then start_clash() on handles t0, c0 and
\* proxy setting p0, with the answers ti, ci of the file system and the OS
\* and the registry write taking effect or not (w).
StartBothResult(t0, c0, p0, ti, ci, w) ==
    LET t == start_tor(t0, ti.exe, ti.rc, ti.popen)
        c == start_clash(c0, p0, ci.exe, ci.popen, w)
    IN  [tor |-> t.h, clash |-> c.h, proxy |-> c.proxy,
         spawned |-> [d \in Daemons |->
                        IF (IF d = "tor" THEN t.spawned ELSE c.spawned)
                           THEN 1 ELSE 0]]

\* The state after stop_tor() then stop_clash(); an exception of the first
\* skips the second.
StopBothResult(ot, oc, w) ==
    IF StopRaises(ot)
       THEN [tor |-> stop_tor(tor_process, ot), clash |-> clash_process,
             proxy |-> proxy, raised |-> TRUE,
             killed |-> [d \in Daemons |-> 0]]
       ELSE LET c == stop_clash(clash_process, proxy, oc, w) IN
            [tor |-> stop_tor(tor_process, ot), clash |-> c.h,
             proxy |-> c.proxy, raised |-> StopRaises(oc),
             killed |-> [d \in Daemons |->
                           IF StopKills(IF d = "tor" THEN ot ELSE oc)
                              THEN 1 ELSE 0]]

\* The supervisor's state is set from a start or stop result.
SetSupervisor(r, delta) ==
    /\ tor_process' = r.tor
    /\ clash_process' = r.clash
    /\ proxy' = r.proxy
    /\ running' = [d \in Daemons |-> running[d] + delta[d]]

Minus(f) == [d \in Daemons |-> 0 - f[d]]

\* An exception that leaves a handler of the main thread ends the event
\* loop and the process with it: the exit hook runs next.
Crash(kind) ==
    /\ uiPc' = "exiting"
    /\ exitCode' = 1
    /\ raised' = kind

\* RotatorApp.build (its tail): start the loop thread, start both daemons
\* and schedule the first IP change.
build(env) ==
    /\ uiPc = "build"
    /\ uiPc' = "run"
    /\ loopPc' = "top"
    /\ last_change' = now
    /\ IF configured
          THEN /\ \E ti \in env.tor, ci \in env.clash, w \in env.reg :
                    LET r == StartBothResult(tor_process, clash_process,
                                             proxy, ti, ci, w)
                    IN  SetSupervisor(r, r.spawned)
               /\ clock' = clock \cup {now + StartupDelay * Second}
          ELSE UNCHANGED <<pmVars, clock>>
    /\ UNCHANGED <<harnessVars,
                   configured, enabled, interval_seconds, stop_event,
                   rotation_event, poolVars, switch_active, apply_disabled,
                   elapsed, wake_at, now, exitVars, setups, enabled_at>>

\* RotatorApp.on_switch_active: the switch changed to `value`.
on_switch_active(env) ==
    /\ uiPc = "run"
    /\ LET value == ~switch_active IN
       /\ switch_active' = value
       /\ IF ~configured
             THEN UNCHANGED <<enabled, pmVars, apply_disabled, uiPc,
                              exitCode, raised>>
          ELSE /\ enabled' = value
               /\ IF value
                     THEN /\ \E ti \in env.tor, ci \in env.clash,
                                  w \in env.reg :
                               LET r == StartBothResult(tor_process,
                                           clash_process, proxy, ti, ci, w)
                               IN  SetSupervisor(r, r.spawned)
                          /\ apply_disabled' = FALSE
                          /\ UNCHANGED <<uiPc, exitCode, raised>>
                     ELSE \E ot \in StopOutcomes(tor_process) \cap env.stop,
                             oc \in StopOutcomes(clash_process) \cap env.stop,
                             w \in env.reg :
                            LET r == StopBothResult(ot, oc, w) IN
                            /\ SetSupervisor(r, Minus(r.killed))
                            /\ IF r.raised
                                  THEN /\ Crash("kill")
                                       /\ UNCHANGED apply_disabled
                                  ELSE /\ apply_disabled' = TRUE
                                       /\ UNCHANGED <<uiPc, exitCode, raised>>
    /\ enabled_at' = IF configured /\ ~switch_active /\ loopPc = "idle"
                         THEN now ELSE -1
    /\ UNCHANGED <<harnessVars, configured, interval_seconds, stop_event,
                   rotation_event, poolVars, clock, loopVars, now, trigger,
                   outcomes, signals, setups>>

\* An apply_interval that checks the unit and not the value's range.
Accepted_UnitOnly(inp) == inp.text = "num" /\ inp.unit \in Units

\* apply_interval accepts an input whose text parses as a float and whose
\* value the validator accepts for the unit.
Accepted(inp) == inp.text = "num" /\ validate(inp.v, inp.unit) = "ok"

\* RotatorApp.apply_interval with the input inp, up to the assignment of
\* interval_seconds.
apply_interval_with(inp) ==
    /\ uiPc = "run"
    /\ ~apply_disabled
    /\ IF configured /\ Accepted(inp)
          THEN /\ interval_seconds' = to_seconds(inp.v, inp.unit)
               /\ uiPc' = "apply_set"
          ELSE UNCHANGED <<interval_seconds, uiPc>>
    /\ UNCHANGED <<configured, enabled, pmVars, stop_event,
                   rotation_event, poolVars, switch_active, apply_disabled,
                   clock, loopVars, now, exitVars, setups, enabled_at>>

apply_interval(env) ==
    /\ \E inp \in env.apply : apply_interval_with(inp)
    /\ UNCHANGED harnessVars

\* The same, with the input kept on record.
call_apply_interval(env) ==
    /\ \E inp \in env.apply :
          /\ apply_interval_with(inp)
          /\ last_call' = [op |-> "apply_interval", returned |-> TRUE,
                           input |-> inp]
    /\ UNCHANGED <<callers, procs, tor_ref, constructions>>

\* An apply_interval that writes the interval and wakes nobody.
rotation_event_set_Skipped(flag) == flag

\* threading.Event.set(): the flag is true from now on, whoever waits or
\* will wait on it.
rotation_event_set(flag) == TRUE

\* RotatorApp.apply_interval: self.rotation_event.set()
apply_interval_set ==
    /\ uiPc = "apply_set"
    /\ rotation_event' = rotation_event_set(rotation_event)
    /\ uiPc' = "run"
    /\ UNCHANGED <<harnessVars,
                   configured, enabled, interval_seconds, pmVars, stop_event,
                   poolVars, switch_active, apply_disabled, clock, loopVars,
                   now, exitVars, setups, enabled_at>>

\* ThreadPoolExecutor.submit on a pool that accepts work.
Submit(q) == Append(q, "change_ip")

\* RotatorApp.change_ip from the "change IP now" button.
change_ip_pressed ==
    /\ uiPc = "run"
    /\ Len(queue) < MaxQueue
    /\ queue' = Submit(queue)
    /\ UNCHANGED <<configured, enabled, interval_seconds, pmVars, stop_event,
                   rotation_event, shutdown, workers, switch_active,
                   apply_disabled, clock, loopVars, now, uiPc, exitVars,
                   setups, enabled_at>>

change_ip ==
    /\ change_ip_pressed
    /\ UNCHANGED harnessVars

\* The same, with the time of the pressing and the interval then in force
\* kept on record.
call_change_ip ==
    /\ change_ip_pressed
    /\ last_call' = [op |-> "change_ip", returned |-> TRUE, at |-> now,
                     interval |-> interval_seconds]
    /\ UNCHANGED <<callers, procs, tor_ref, constructions>>

\* A change_ip scheduled with Clock.schedule_once comes due.
clock_change_ip ==
    /\ uiPc = "run"
    /\ Len(queue) < MaxQueue
    /\ \E t \in clock :
          /\ now >= t
          /\ clock' = clock \ {t}
    /\ queue' = Submit(queue)
    /\ UNCHANGED <<harnessVars,
                   configured, enabled, interval_seconds, pmVars, stop_event,
                   rotation_event, shutdown, workers, switch_active,
                   apply_disabled, loopVars, now, uiPc, exitVars, setups,
                   enabled_at>>

\* ProcessManager._instance, as the constructions so far left it.
PmInstance ==
    IF constructions = <<>> THEN 0
    ELSE constructions[Len(constructions)].instance

\* show_setup_wizard.on_setup_complete: stop the old daemons, take the new
\* configuration, construct the managers again, start the daemons, schedule
\* an IP change.
on_setup_complete(env) ==
    /\ uiPc = "run"
    /\ setups < MaxSetups
    /\ setups' = setups + 1
    /\ \E ot \in (IF configured THEN StopOutcomes(tor_process) \cap env.stop
                                ELSE {"noop"}),
          oc \in (IF configured THEN StopOutcomes(clash_process) \cap env.stop
                                ELSE {"noop"}),
          w \in env.reg :
         LET r == IF configured
                     THEN StopBothResult(ot, oc, w)
                     ELSE [tor |-> tor_process, clash |-> clash_process,
                           proxy |-> proxy, raised |-> FALSE,
                           killed |-> [d \in Daemons |-> 0]]
             n == ProcessManager_new(PmInstance,
                      [tor_process |-> r.tor, clash_process |-> r.clash,
                       enabled |-> enabled,
                       interval_seconds |-> interval_seconds])
         IN
         IF r.raised
            THEN /\ SetSupervisor(r, Minus(r.killed))
                 /\ Crash("kill")
                 /\ UNCHANGED <<configured, clock, enabled, interval_seconds,
                                constructions>>
            ELSE /\ configured' = TRUE
                 /\ constructions' = Append(constructions, n)
                 /\ enabled' = n.state.enabled
                 /\ interval_seconds' = n.state.interval_seconds
                 /\ \E ti \in env.tor, ci \in env.clash, w2 \in env.reg :
                       LET s == StartBothResult(n.state.tor_process,
                                                n.state.clash_process,
                                                r.proxy, ti, ci, w2)
                       IN  SetSupervisor(s, [d \in Daemons |->
                                               s.spawned[d] - r.killed[d]])
                 /\ clock' = clock \cup {now + SetupDelay * Second}
                 /\ UNCHANGED <<uiPc, exitCode, raised>>
    /\ UNCHANGED <<callVars, stop_event, rotation_event, poolVars,
                   switch_active, apply_disabled, loopVars, now, trigger,
                   outcomes, signals, enabled_at>>

\* A supervised process exits on its own; its handle stays.
process_exits ==
    /\ \E d \in Daemons :
          /\ (IF d = "tor" THEN tor_process ELSE clash_process) = "alive"
          /\ last_call.returned
          /\ running' = [running EXCEPT ![d] = @ - 1]
          /\ IF d = "tor"
                THEN tor_process' = "exited" /\ UNCHANGED clash_process
                ELSE clash_process' = "exited" /\ UNCHANGED tor_process
    /\ UNCHANGED <<harnessVars,
                   configured, enabled, interval_seconds, proxy, stop_event,
                   rotation_event, poolVars, switch_active, apply_disabled,
                   clock, loopVars, now, uiPc, exitVars, setups, enabled_at>>

\* ------------------------------- the supervisor's API, called directly
\* What a call leaves alone besides the supervisor's own state.
otherThanCalls == <<configured, enabled, interval_seconds, stop_event,
                    rotation_event, poolVars, switch_active, apply_disabled,
                    clock, loopVars, now, uiPc, exitVars, setups, enabled_at,
                    callers, procs, tor_ref, constructions>>

\* The record of a start: the handle and the proxy setting before (h0, p0),
\* the answers of the file system, the OS and the registry, the return
\* value, whether a process was made, the handle and the setting after.
StartCall(op, h0, p0, exe, rc, popen, w, r, p1) ==
    [op |-> op, returned |-> TRUE, raised |-> FALSE, h0 |-> h0, p0 |-> p0,
     exe |-> exe, rc |-> rc, popen |-> popen, w |-> w, ret |-> r.ret,
     spawned |-> r.spawned, h1 |-> r.h, p1 |-> p1]

\* The record of a stop: how it went, whether it returned or raised, the
\* signals it sent, the longest its timed wait lasted.
StopCall(op, h0, p0, outcome, w, h1, p1) ==
    [op |-> op, returned |-> StopReturns(outcome),
     raised |-> StopRaises(outcome), h0 |-> h0, p0 |-> p0,
     outcome |-> outcome, w |-> w, terminated |-> StopSignals(outcome),
     killed |-> StopForces(outcome), waited |-> StopWait(outcome),
     h1 |-> h1, p1 |-> p1]

Count(b) == IF b THEN 1 ELSE 0

\* ProcessManager.start_tor()
call_start_tor(env) ==
    /\ last_call.returned
    /\ \E ti \in env.tor :
          LET r == start_tor(tor_process, ti.exe, ti.rc, ti.popen) IN
          /\ tor_process' = r.h
          /\ running' = [running EXCEPT !["tor"] = @ + Count(r.spawned)]
          /\ last_call' = StartCall("start_tor", tor_process, proxy, ti.exe,
                                    ti.rc, ti.popen, TRUE, r, proxy)
    /\ UNCHANGED <<clash_process, proxy, otherThanCalls>>

\* ProcessManager.stop_tor()
call_stop_tor(env) ==
    /\ last_call.returned
    /\ \E o \in StopOutcomes(tor_process) \cap env.stop :
          /\ tor_process' = stop_tor(tor_process, o)
          /\ running' = [running EXCEPT !["tor"] = @ - Count(StopKills(o))]
          /\ last_call' = StopCall("stop_tor", tor_process, proxy, o, TRUE,
                                   stop_tor(tor_process, o), proxy)
    /\ UNCHANGED <<clash_process, proxy, otherThanCalls>>

\* ProcessManager.start_clash()
call_start_clash(env) ==
    /\ last_call.returned
    /\ \E ci \in env.clash, w \in env.reg :
          LET r == start_clash(clash_process, proxy, ci.exe, ci.popen, w) IN
          /\ clash_process' = r.h
          /\ proxy' = r.proxy
          /\ running' = [running EXCEPT !["clash"] = @ + Count(r.spawned)]
          /\ last_call' = StartCall("start_clash", clash_process, proxy,
                                    ci.exe, TRUE, ci.popen, w, r, r.proxy)
    /\ UNCHANGED <<tor_process, otherThanCalls>>

\* ProcessManager.stop_clash()
call_stop_clash(env) ==
    /\ last_call.returned
    /\ \E o \in StopOutcomes(clash_process) \cap env.stop, w \in env.reg :
          LET r == stop_clash(clash_process, proxy, o, w) IN
          /\ clash_process' = r.h
          /\ proxy' = r.proxy
          /\ running' = [running EXCEPT !["clash"] = @ - Count(StopKills(o))]
          /\ last_call' = StopCall("stop_clash", clash_process, proxy, o, w,
                                   r.h, r.proxy)
    /\ UNCHANGED <<tor_process, otherThanCalls>>

\* ------------------------- start_tor / stop_tor called from two threads
\* The supervisor takes no lock, so the statements of two calls interleave.
\* Each launched process has a number; a thread's local `process` and
\* state.tor_process (tor_ref) hold one of these numbers, or 0 for None.
MaxSpawns == 2

otherThanConc == <<configured, enabled, interval_seconds, clash_process,
                   proxy, stop_event, rotation_event, poolVars,
                   switch_active, apply_disabled, clock, loopVars, now, uiPc,
                   exitVars, setups, enabled_at, last_call, constructions>>

LiveCount(ps) == Cardinality({i \in 1..Len(ps) : ps[i] = "alive"})

\* What state.tor_process looks like: None, or a handle whose poll() says
\* alive or exited.
TorHandleView(ref, ps) == IF ref = 0 THEN "None" ELSE ps[ref]

\* The handle and the live-process count follow the process table.
SetTor(ref, ps) ==
    /\ tor_ref' = ref
    /\ procs' = ps
    /\ tor_process' = TorHandleView(ref, ps)
    /\ running' = [running EXCEPT !["tor"] = LiveCount(ps)]

Starting(t) == callers[t].op = "start_tor" /\ callers[t].process = 0

\* A thread calls start_tor() (both paths exist).
start_tor_enter(t) ==
    /\ callers[t].pc = "idle"
    /\ Len(procs) + Cardinality({u \in Threads : Starting(u)}) < MaxSpawns
    /\ callers' = [callers EXCEPT ![t] = [pc |-> "check", op |-> "start_tor",
                                          process |-> 0]]
    /\ UNCHANGED <<pmVars, procs, tor_ref, otherThanConc>>

\* if not self.state.tor_process or self.state.tor_process.poll() is not None
start_tor_check(t) ==
    /\ callers[t].pc = "check"
    /\ callers' = [callers EXCEPT ![t] =
                      IF NeedsLaunch(TorHandleView(tor_ref, procs))
                         THEN [@ EXCEPT !.pc = "popen"]
                         ELSE Idle]
    /\ UNCHANGED <<pmVars, procs, tor_ref, otherThanConc>>

\* subprocess.Popen([...]) returns the new process
start_tor_popen(t) ==
    /\ callers[t].pc = "popen"
    /\ callers' = [callers EXCEPT ![t] = [@ EXCEPT !.pc = "assign",
                                                   !.process = Len(procs) + 1]]
    /\ SetTor(tor_ref, Append(procs, "alive"))
    /\ UNCHANGED <<clash_process, proxy, otherThanConc>>

\* self.state.tor_process = <the new process>; return True
start_tor_assign(t) ==
    /\ callers[t].pc = "assign"
    /\ SetTor(callers[t].process, procs)
    /\ callers' = [callers EXCEPT ![t] = Idle]
    /\ UNCHANGED <<clash_process, proxy, otherThanConc>>

\* A thread calls stop_tor(): it reads state.tor_process and, in
\* _stop_process, tests `process and process.poll() is None`.
stop_tor_enter(t) ==
    /\ callers[t].pc = "idle"
    /\ callers' = [callers EXCEPT ![t] =
                      [pc |-> IF TorHandleView(tor_ref, procs) = "alive"
                                 THEN "terminate" ELSE "clear",
                       op |-> "stop_tor", process |-> tor_ref]]
    /\ UNCHANGED <<pmVars, procs, tor_ref, otherThanConc>>

\* process.terminate(), the timed wait, and kill() if it timed out: the
\* process the thread holds has exited.
stop_tor_terminate(t) ==
    /\ callers[t].pc = "terminate"
    /\ SetTor(tor_ref, [procs EXCEPT ![callers[t].process] = "exited"])
    /\ callers' = [callers EXCEPT ![t] = [@ EXCEPT !.pc = "clear"]]
    /\ UNCHANGED <<clash_process, proxy, otherThanConc>>

\* self.state.tor_process = None
stop_tor_clear(t) ==
    /\ callers[t].pc = "clear"
    /\ SetTor(0, procs)
    /\ callers' = [callers EXCEPT ![t] = Idle]
    /\ UNCHANGED <<clash_process, proxy, otherThanConc>>

\* --------------------------------------- the validator, called directly
\* Values (in hundredths) and units that validate is called with: each
\* range's end points and their neighbours, and values far outside.
ValidatorValues ==
    {-100, 0, 1, 2, 99, 100, 101, 2399, 2400, 2401, 2500, 3000, 9000,
     143999, 144000, 144001, 150000, 8639999, 8640000, 8640001}

ValidatorUnits == Units \cup {"day"}

\* IntervalValidator.validate(value, unit)
call_validate ==
    /\ last_call.returned
    /\ \E value \in ValidatorValues, unit \in ValidatorUnits :
          last_call' = [op |-> "validate", returned |-> TRUE,
                        value |-> value, unit |-> unit,
                        result |-> validate(value, unit)]
    /\ UNCHANGED <<pmVars, otherThanCalls>>

\* Floats (in 1/Fine hundredths) and units that to_seconds is called with:
\* 0.01, 1, 30, 90 and 24 of a unit, and floats that are next to each other
\* or 0.01 apart.
FloatInputs ==
    { [value |-> v, unit |-> "hour"] :
         v \in {1 * Fine, 100 * Fine, 149136, 149137, 149136 + Fine,
                2400 * Fine} }
    \cup { [value |-> v, unit |-> "min"] :
         v \in {1 * Fine, 3000 * Fine, 139816, 139817, 139816 + Fine} }
    \cup { [value |-> v, unit |-> "sec"] :
         v \in {100 * Fine, 100 * Fine + 1, 9000 * Fine} }
    \cup { [value |-> 100 * Fine, unit |-> "day"] }

\* IntervalValidator.to_seconds(value, unit), twice with the same unit.
call_to_seconds ==
    /\ last_call.returned
    /\ \E a \in FloatInputs, b \in FloatInputs :
          /\ a.unit = b.unit
          /\ last_call' = [op |-> "to_seconds", returned |-> TRUE,
                           unit |-> a.unit,
                           value |-> a.value,
                           seconds |-> to_seconds_float(a.value, a.unit),
                           value2 |-> b.value,
                           seconds2 |-> to_seconds_float(b.value, b.unit)]
    /\ UNCHANGED <<pmVars, otherThanCalls>>

\* ------------------------------------------- the probe, called directly
\* ClashIPChecker.get_ip(): the script says what each request would do.
call_get_ip ==
    /\ last_call.returned
    /\ \E script \in ProbeScripts :
          last_call' = [op |-> "get_ip", returned |-> TRUE,
                        script |-> script, result |-> get_ip(script)]
    /\ UNCHANGED <<pmVars, otherThanCalls>>

\* ------------------------------------------- the rotator thread's loop
\* The locals elapsed and wake_at (the wait's deadline) are zeroed once the
\* loop cannot read them again before reassigning them.
\* A loop that fires after every wait, run out or interrupted.
RotationDue_Always(el, interval) == TRUE

\* line 479: elapsed >= interval_seconds
RotationDue(el, interval) == el >= interval

\* A loop that retries one second after a rotation.
WaitAfterRotation_Retry(interval) == Second

\* line 482: wait_time after a rotation was submitted
WaitAfterRotation(interval) == interval

\* A loop that waits a whole interval from now, not from the last rotation.
WaitRemaining_FromNow(interval, el) == interval

\* line 484: wait_time while the interval has not elapsed
WaitRemaining(interval, el) == interval - el

\* A loop that does not look at the shutdown signal.
LoopContinues_Ignore(stopSet) == TRUE

\* line 476: while not self.stop_event.is_set()
LoopContinues(stopSet) == ~stopSet

\* line 477: self.process_manager and self.process_manager.state.enabled
RotationActive(conf, en) == conf /\ en

otherThanLoop == <<harnessVars,
                   configured, enabled, interval_seconds, pmVars, stop_event,
                   shutdown, workers, switch_active, apply_disabled, clock,
                   now, uiPc, exitVars, setups>>

rotator_top ==
    /\ loopPc = "top"
    /\ loopPc' = IF LoopContinues(stop_event) THEN "chk_enabled" ELSE "done"
    /\ UNCHANGED <<last_change, elapsed, wake_at, rotation_event, queue,
                   otherThanLoop, enabled_at>>

rotator_chk_enabled ==
    /\ loopPc = "chk_enabled"
    /\ IF RotationActive(configured, enabled)
          THEN loopPc' = "chk_elapsed" /\ UNCHANGED wake_at
          ELSE loopPc' = "idle" /\ wake_at' = now + IdleCheckSeconds * Second
    /\ UNCHANGED <<last_change, elapsed, rotation_event, queue,
                   otherThanLoop, enabled_at>>

rotator_chk_elapsed ==
    /\ loopPc = "chk_elapsed"
    /\ elapsed' = now - last_change
    /\ loopPc' = IF RotationDue(now - last_change, interval_seconds)
                    THEN "submit" ELSE "rd_wait"
    /\ UNCHANGED <<last_change, wake_at, rotation_event, queue,
                   otherThanLoop, enabled_at>>

\* lines 480-481: self.change_ip(); last_change = time.time().  submit on a
\* pool that was shut down raises RuntimeError, which ends the thread.
rotator_submit ==
    /\ loopPc = "submit"
    /\ IF shutdown
          THEN loopPc' = "crashed" /\ UNCHANGED <<queue, last_change>>
          ELSE /\ queue' = Submit(queue)
               /\ last_change' = now
               /\ loopPc' = "rd_full"
    /\ elapsed' = 0
    /\ enabled_at' = IF shutdown THEN enabled_at ELSE -1
    /\ UNCHANGED <<wake_at, rotation_event, otherThanLoop>>

rotator_rd_full ==
    /\ loopPc = "rd_full"
    /\ wake_at' = now + WaitAfterRotation(interval_seconds)
    /\ loopPc' = "wait"
    /\ UNCHANGED <<last_change, elapsed, rotation_event, queue,
                   otherThanLoop, enabled_at>>

rotator_rd_wait ==
    /\ loopPc = "rd_wait"
    /\ wake_at' = now + WaitRemaining(interval_seconds, elapsed)
    /\ loopPc' = "wait"
    /\ elapsed' = 0
    /\ UNCHANGED <<last_change, rotation_event, queue, otherThanLoop,
                   enabled_at>>


\* line 487: self.rotation_event.wait(timeout=wait_time) returns
rotator_wake ==
    /\ loopPc = "wait"
    /\ rotation_event \/ now >= wake_at
    /\ loopPc' = "clear"
    /\ wake_at' = 0
    /\ UNCHANGED <<last_change, elapsed, rotation_event, queue,
                   otherThanLoop, enabled_at>>

\* line 488: self.rotation_event.clear()
rotator_clear ==
    /\ loopPc = "clear"
    /\ rotation_event' = FALSE
    /\ loopPc' = "top"
    /\ UNCHANGED <<last_change, elapsed, wake_at, queue, otherThanLoop,
                   enabled_at>>

\* line 491: self.stop_event.wait(timeout=1) returns
rotator_idle_wake ==
    /\ loopPc = "idle"
    /\ stop_event \/ now >= wake_at
    /\ loopPc' = "top"
    /\ wake_at' = 0
    /\ UNCHANGED <<last_change, elapsed, rotation_event, queue,
                   otherThanLoop, enabled_at>>

rotator ==
    \/ rotator_top
    \/ rotator_chk_enabled
    \/ rotator_chk_elapsed
    \/ rotator_submit
    \/ rotator_rd_full
    \/ rotator_rd_wait
    \/ rotator_wake
    \/ rotator_clear
    \/ rotator_idle_wake

\* The loop thread is blocked in a timed wait that is not yet due, or gone.
LoopBlocked ==
    \/ loopPc = "wait" /\ ~rotation_event /\ now < wake_at
    \/ loopPc = "idle" /\ ~stop_event /\ now < wake_at
    \/ loopPc \in {"done", "crashed"}

tick(limit) ==
    /\ now < limit * Second
    /\ uiPc \notin {"build", "apply_set"}
    /\ LoopBlocked
    /\ now' = now + Second
    /\ UNCHANGED <<harnessVars,
                   configured, enabled, interval_seconds, pmVars, stop_event,
                   rotation_event, poolVars, switch_active, apply_disabled,
                   clock, loopVars, uiPc, exitVars, setups, enabled_at>>

\* ------------------------------------- the pool and _change_ip_async
otherThanPool == <<harnessVars,
                   configured, enabled, interval_seconds, pmVars, stop_event,
                   rotation_event, shutdown, switch_active, apply_disabled,
                   clock, loopVars, now, uiPc, exitVars, setups, enabled_at>>

\* An idle pool thread takes the oldest queued task.
worker_take(w) ==
    /\ workers[w].pc = "free"
    /\ \A v \in Workers : v < w => workers[v].pc # "free"
    /\ queue # <<>>
    /\ workers' = [workers EXCEPT ![w] = [Free EXCEPT !.pc = "begin"]]
    /\ queue' = Tail(queue)
    /\ UNCHANGED otherThanPool

\* lines 454-456: without an ip_checker the task returns at once
worker_begin(w) ==
    /\ workers[w].pc = "begin"
    /\ workers' = [workers EXCEPT ![w] =
                      IF configured THEN [@ EXCEPT !.pc = "ctrl"] ELSE Free]
    /\ UNCHANGED <<queue, otherThanPool>>

\* A task that probes although the exchange failed.
AfterControl_AlwaysProbe(ok) == "probe"

\* A task that publishes without probing.
AfterControl_NeverProbe(ok) == "publish"

\* Where _change_ip_async goes after the control-channel exchange: on to the
\* probe, or (an exception) straight to the error publication.
AfterControl(ok) == IF ok THEN "probe" ELSE "publish"

\* lines 459-461: connect, authenticate, NEWNYM, close
worker_ctrl(w) ==
    /\ workers[w].pc = "ctrl"
    /\ \E ok \in BOOLEAN :
          workers' = [workers EXCEPT ![w] =
                         [@ EXCEPT !.pc = AfterControl(ok),
                                   !.nctrl = @ + 1,
                                   !.res = IF ok THEN "none" ELSE "error"]]
    /\ UNCHANGED <<queue, otherThanPool>>

\* line 462: new_ip = self.ip_checker.get_ip()
worker_probe(w, env) ==
    /\ workers[w].pc = "probe"
    /\ \E new_ip \in ProbeResults \cap env.probe :
          workers' = [workers EXCEPT ![w] =
                         [@ EXCEPT !.pc = "publish",
                                   !.nprobe = @ + 1,
                                   !.res = new_ip]]
    /\ UNCHANGED <<queue, otherThanPool>>

\* lines 463 / 466: the task hands the text in res (the address, the
\* sentinel or the error text) to the presentation layer and ends.
worker_publish(w) ==
    /\ workers[w].pc = "publish"
    /\ workers' = [workers EXCEPT ![w] = Free]
    /\ UNCHANGED <<queue, otherThanPool>>

worker(env) ==
    \E w \in Workers :
       \/ worker_take(w)
       \/ worker_begin(w)
       \/ worker_ctrl(w)
       \/ worker_probe(w, env)
       \/ worker_publish(w)

\* ------------------------------------------------- RotatorApp.cleanup
otherThanCleanup == <<harnessVars,
                      configured, enabled, interval_seconds, switch_active,
                      apply_disabled, clock, loopVars, now, setups,
                      enabled_at>>

\* RotatorApp.on_stop: the application is closed.
on_stop ==
    /\ uiPc = "run"
    /\ trigger' = "on_stop"
    /\ uiPc' = "cl_stop_event"
    /\ UNCHANGED <<pmVars, stop_event, rotation_event, poolVars, exitCode,
                   raised, outcomes, signals, otherThanCleanup>>

\* RotatorApp._signal_handler: SIGINT or SIGTERM arrives while the
\* application runs or is on its way out after a normal stop.
signal_handler ==
    /\ uiPc = "run" \/ (uiPc = "exiting" /\ exitCode = 0)
    /\ signals < MaxSignals
    /\ signals' = signals + 1
    /\ trigger' = "signal"
    /\ uiPc' = "cl_stop_event"
    /\ UNCHANGED <<pmVars, stop_event, rotation_event, poolVars, exitCode,
                   raised, outcomes, otherThanCleanup>>

\* atexit.register(self.cleanup): the interpreter is exiting.
atexit_cleanup ==
    /\ uiPc = "exiting"
    /\ trigger' = "atexit"
    /\ uiPc' = "cl_stop_event"
    /\ UNCHANGED <<pmVars, stop_event, rotation_event, poolVars, exitCode,
                   raised, outcomes, signals, otherThanCleanup>>

\* lines 504-505
cleanup_stop_event ==
    /\ uiPc = "cl_stop_event"
    /\ stop_event' = TRUE
    /\ uiPc' = "cl_rotation_event"
    /\ UNCHANGED <<pmVars, rotation_event, poolVars, exitVars,
                   otherThanCleanup>>

\* lines 506-507
cleanup_rotation_event ==
    /\ uiPc = "cl_rotation_event"
    /\ rotation_event' = TRUE
    /\ uiPc' = "cl_shutdown"
    /\ UNCHANGED <<pmVars, stop_event, poolVars, exitVars, otherThanCleanup>>

\* executor.shutdown(cancel_futures=True): what is left of the queue
CancelFutures(q) == <<>>

\* line 512, first half: no new work is accepted, pending work is cancelled
cleanup_shutdown ==
    /\ uiPc = "cl_shutdown"
    /\ shutdown' = TRUE
    /\ queue' = CancelFutures(queue)
    /\ uiPc' = "cl_join"
    /\ UNCHANGED <<pmVars, stop_event, rotation_event, workers, exitVars,
                   otherThanCleanup>>

\* A shutdown that does not wait for the running tasks.
PoolDrained_NoWait(ws) == TRUE

\* executor.shutdown(wait=True) returns when no pool thread runs a task
PoolDrained(ws) == \A w \in Workers : ws[w].pc = "free"

\* line 512, second half
cleanup_join ==
    /\ uiPc = "cl_join"
    /\ PoolDrained(workers)
    /\ uiPc' = "cl_stop"
    /\ UNCHANGED <<pmVars, stop_event, rotation_event, poolVars, exitVars,
                   otherThanCleanup>>

\* An exit that reports success whatever cleanup did.
ExitStatus_Zero(cleanupRaised, current) == 0

\* The exit status after the cleanup of on_stop or of the signal handler:
\* exit(0) (or the normal end of run()) is reached only when cleanup
\* returned; an exception leaves the main thread uncaught.
ExitStatus(cleanupRaised, current) ==
    IF cleanupRaised THEN 1
    ELSE IF current = -1 THEN 0 ELSE current

\* How a cleanup invocation ends, for its trigger: the exit hook's
\* exceptions are printed and dropped, the others end the main thread.
CleanupEnds(kind) ==
    /\ outcomes' = Append(outcomes, IF kind = "none" THEN "returned" ELSE "raised")
    /\ IF trigger = "atexit"
          THEN /\ uiPc' = "exited"
               /\ UNCHANGED <<exitCode, raised>>
          ELSE /\ uiPc' = "exiting"
               /\ exitCode' = ExitStatus(kind # "none", exitCode)
               /\ raised' = IF kind # "none" /\ raised = "none"
                               THEN kind ELSE raised

\* lines 517-519: hasattr(self, 'process_manager') holds even when the
\* attribute is None, and then stop_tor() raises AttributeError.
cleanup_stop(env) ==
    /\ uiPc = "cl_stop"
    /\ IF ~configured
          THEN /\ CleanupEnds("attr")
               /\ UNCHANGED pmVars
          ELSE \E ot \in StopOutcomes(tor_process) \cap env.stop,
                  oc \in StopOutcomes(clash_process) \cap env.stop,
                  w \in env.reg :
                 LET r == StopBothResult(ot, oc, w) IN
                 /\ SetSupervisor(r, Minus(r.killed))
                 /\ CleanupEnds(IF r.raised THEN "kill" ELSE "none")
    /\ UNCHANGED <<stop_event, rotation_event, poolVars, trigger, signals,
                   otherThanCleanup>>

cleanup(env) ==
    \/ cleanup_stop_event
    \/ cleanup_rotation_event
    \/ cleanup_shutdown
    \/ cleanup_join
    \/ cleanup_stop(env)

\* ------------------------------------------------------ specifications
\* The scheduling loop, the switch and the interval field, the first IP
\* change that build schedules and the pool, over MaxTime seconds on a
\* machine where the daemons launch and stop as asked.
SchedNext ==
    \/ build(NominalEnv)
    \/ on_switch_active(NominalEnv)
    \/ apply_interval(NominalEnv)
    \/ apply_interval_set
    \/ clock_change_ip
    \/ rotator
    \/ worker(NominalEnv)
    \/ tick(MaxTime)

SchedSpec == Init /\ [][SchedNext]_vars

\* The shutdown path with its three triggers, next to the loop and the pool,
\* over MaxFaultTime seconds on a machine where a stop may end in an error.
ShutdownNext ==
    \/ build(ShutdownEnv)
    \/ on_switch_active(ShutdownEnv)
    \/ apply_interval(ShutdownEnv)
    \/ apply_interval_set
    \/ change_ip
    \/ on_stop
    \/ signal_handler
    \/ atexit_cleanup
    \/ cleanup(ShutdownEnv)
    \/ rotator
    \/ worker(ShutdownEnv)
    \/ tick(MaxFaultTime)

ShutdownSpec == Init /\ [][ShutdownNext]_vars

\* The same without the "change IP now" button, with the threads scheduled:
\* the loop thread, the pool threads and the main thread inside cleanup
\* each take their next step when they can.
LoopStopNext ==
    \/ build(ShutdownEnv)
    \/ on_switch_active(ShutdownEnv)
    \/ apply_interval(ShutdownEnv)
    \/ apply_interval_set
    \/ on_stop
    \/ signal_handler
    \/ atexit_cleanup
    \/ cleanup(ShutdownEnv)
    \/ rotator
    \/ worker(ShutdownEnv)
    \/ tick(MaxFaultTime)

FairLoopStopSpec ==
    /\ Init /\ [][LoopStopNext]_vars
    /\ WF_vars(rotator)
    /\ WF_vars(worker(ShutdownEnv))
    /\ WF_vars(cleanup(ShutdownEnv))

\* The interval field next to the switch and the loop, every pressing of
\* "apply" on record, over MaxTime seconds.
IntervalNext ==
    \/ build(NominalEnv)
    \/ on_switch_active(NominalEnv)
    \/ call_apply_interval(NominalEnv)
    \/ apply_interval_set
    \/ rotator
    \/ tick(MaxTime)

IntervalSpec == Init /\ [][IntervalNext]_vars

\* The "change IP now" button, each pressing on record, next to the
\* interval field, the loop and the pool, over MaxTime seconds.
ManualNext ==
    \/ build(ManualEnv)
    \/ apply_interval(ManualEnv)
    \/ apply_interval_set
    \/ call_change_ip
    \/ rotator
    \/ worker(ManualEnv)
    \/ tick(MaxTime)

ManualSpec == Init /\ [][ManualNext]_vars

\* The switch, the interval field, the "change IP now" button and the setup
\* wizard next to the loop and the pool, over MaxFaultTime seconds on a
\* machine where the daemons launch and stop as asked.
ReconfigureNext ==
    \/ build(ReconfigureEnv)
    \/ on_switch_active(ReconfigureEnv)
    \/ apply_interval(ReconfigureEnv)
    \/ apply_interval_set
    \/ change_ip
    \/ clock_change_ip
    \/ on_setup_complete(ReconfigureEnv)
    \/ rotator
    \/ worker(ReconfigureEnv)
    \/ tick(MaxFaultTime)

ReconfigureSpec == Init /\ [][ReconfigureNext]_vars

\* The supervisor alone: every start, stop and registry write free to fail,
\* the daemons free to exit on their own, the setup wizard free to finish.
SupervisorNext ==
    \/ build(FaultyEnv)
    \/ on_switch_active(FaultyEnv)
    \/ apply_interval(FaultyEnv)
    \/ apply_interval_set
    \/ on_setup_complete(FaultyEnv)
    \/ process_exits
    \/ on_stop
    \/ signal_handler
    \/ atexit_cleanup
    \/ cleanup(FaultyEnv)

SupervisorSpec == Init /\ [][SupervisorNext]_vars

\* The supervisor's four operations called one after another in any order,
\* with every answer of the environment, and the daemons free to exit.
CallsNext ==
    \/ call_start_tor(CallEnv)
    \/ call_stop_tor(CallEnv)
    \/ call_start_clash(CallEnv)
    \/ call_stop_clash(CallEnv)
    \/ process_exits

CallsSpec == Init /\ [][CallsNext]_vars

\* The same on a machine whose registry writes take effect.
WritableCallsNext ==
    \/ call_start_tor(WritableEnv)
    \/ call_stop_tor(WritableEnv)
    \/ call_start_clash(WritableEnv)
    \/ call_stop_clash(WritableEnv)
    \/ process_exits

WritableCallsSpec == Init /\ [][WritableCallsNext]_vars

\* Two threads, each calling start_tor and stop_tor as it likes.
ConcurrentNext ==
    \E t \in Threads :
       \/ start_tor_enter(t)
       \/ start_tor_check(t)
       \/ start_tor_popen(t)
       \/ start_tor_assign(t)
       \/ stop_tor_enter(t)
       \/ stop_tor_terminate(t)
       \/ stop_tor_clear(t)

ConcurrentSpec == Init /\ [][ConcurrentNext]_vars

\* The validator called again and again.
ValidatorNext ==
    \/ call_validate
    \/ call_to_seconds

ValidatorSpec == Init /\ [][ValidatorNext]_vars

\* The probe called again and again, every request free to succeed or fail.
ProbeNext == call_get_ip

ProbeSpec == Init /\ [][ProbeNext]_vars

\* ------------------------------------------------- the scheduling loop
\* The interval field is at rest: no accepted value is between its
\* assignment and the wake-up that follows it.
IntervalSettled == uiPc # "apply_set" /\ ~rotation_event

\* C1: when the switch turns rotation off while the loop is blocked in its
\* interval wait, the loop is woken or its wait ends within one idle-check
\* tick (1 s), so it does not wait out the rest of the interval.
C1_DisableLeavesWaitWithinTick ==
    [][ (configured /\ enabled /\ ~enabled' /\ loopPc = "wait"
            /\ ~rotation_event)
        => (rotation_event' \/ wake_at' <= now' + IdleCheckSeconds * Second)
      ]_vars

\* C2: while the loop waits and no newly applied interval is still on its
\* way to it, the wait ends when the time since the last rotation reaches
\* the current (new) interval; and the loop fires a rotation only when that
\* time has reached the current interval, so applying an interval forces
\* none.
C2_NextRotationAtNewInterval ==
    /\ (loopPc = "wait" /\ IntervalSettled)
         => wake_at = last_change + interval_seconds
    /\ (loopPc = "submit" /\ IntervalSettled)
         => now - last_change >= interval_seconds

\* C2 witness: 2 s were applied over the default hour one second after the
\* last rotation; the loop was woken and now waits for the second 2.
C2_Witness ==
    /\ loopPc = "wait" /\ IntervalSettled
    /\ interval_seconds = 2 * Second
    /\ last_change = 0 /\ now = 1 * Second
    /\ wake_at = 2 * Second
    /\ queue = <<>> /\ clock # {}

\* C3: a scheduled rotation is followed by a wait of the full current
\* interval counted from the rotation, and nothing the IP-change task does
\* (success or failure of the exchange or of the probe) touches the loop's
\* timer or wakes the loop.
C3_FullIntervalAfterEveryCycle ==
    [][ /\ (loopPc = "submit" /\ loopPc' # "submit" /\ ~shutdown)
             => (loopPc' = "rd_full" /\ last_change' = now)
        /\ (loopPc = "rd_full" /\ loopPc' # "rd_full")
             => (loopPc' = "wait" /\ last_change' = now
                   /\ wake_at' = now + interval_seconds)
        /\ (workers' # workers)
             => UNCHANGED <<loopVars, rotation_event, interval_seconds>>
      ]_vars

\* C3 witness: with 1 s applied the rotation of second 1 was submitted, its
\* task failed on the control channel, and the loop waits for second 2.
C3_Witness ==
    /\ loopPc = "wait" /\ interval_seconds = 1 * Second
    /\ last_change = 1 * Second /\ now = 1 * Second
    /\ wake_at = 2 * Second
    /\ clock # {}
    /\ \E w \in Workers : workers[w].pc = "publish" /\ workers[w].res = "error"

\* C4: a scheduled rotation that follows a switch-on from the idle check
\* comes no earlier than a full current interval after that switch-on.
C4_ReenableResetsTimer ==
    (loopPc = "submit" /\ IntervalSettled /\ enabled_at >= 0)
    => now >= enabled_at + interval_seconds

\* C5: a task whose control-channel exchange raised is at its publication
\* with the error text, after that one exchange and without a probe call,
\* and the loop thread has not ended with an exception.
C5_ControlErrorStaysInCycle ==
    /\ \A w \in Workers :
          workers[w].res = "error"
          => /\ workers[w].pc = "publish"
             /\ workers[w].nctrl = 1
             /\ workers[w].nprobe = 0
    /\ loopPc # "crashed"

\* C5 witness: a task is publishing the error while the loop waits out a
\* full interval.
C5_Witness ==
    /\ \E w \in Workers : workers[w].res = "error"
    /\ loopPc = "wait" /\ now < wake_at
    /\ wake_at = last_change + interval_seconds

\* C6 as stated: every task that reaches its publication has made exactly
\* one control-channel exchange and exactly one probe call.
C6_OneExchangeOneProbe ==
    \A w \in Workers :
       workers[w].pc = "publish"
       => workers[w].nctrl = 1 /\ workers[w].nprobe = 1

\* The steps of one task, in order, with the calls made so far.
TaskShape(t) ==
    CASE t.pc \in {"free", "begin", "ctrl"} -> t.nctrl = 0 /\ t.nprobe = 0
      [] t.pc = "probe" -> t.nctrl = 1 /\ t.nprobe = 0 /\ t.res = "none"
      [] t.pc = "publish" ->
           /\ t.nctrl = 1
           /\ \/ t.res = "error" /\ t.nprobe = 0
              \/ t.res \in ProbeResults /\ t.nprobe = 1

\* C6: every task makes exactly one control-channel exchange first; it
\* makes exactly one probe call after it if the exchange succeeded and none
\* if it failed; then it publishes once.  A scheduled firing queues exactly
\* one task and the loop goes on to its full-interval wait without waiting
\* for the task.
C6_OneExchangeThenProbeIfItSucceeded ==
    /\ [](\A w \in Workers : TaskShape(workers[w]))
    /\ [][ (loopPc = "submit" /\ loopPc' = "rd_full")
             => (queue' = Append(queue, "change_ip") /\ workers' = workers)
         ]_vars

\* C6 witness: interval 1 s; the firing of second 1 is being carried out, one
\* exchange and one probe made, the address about to be published, the loop
\* already waiting for second 2.
C6_Witness ==
    /\ interval_seconds = 1 * Second /\ now = 1 * Second
    /\ last_change = 1 * Second
    /\ loopPc = "wait" /\ wake_at = 2 * Second
    /\ clock # {}
    /\ \E w \in Workers :
          /\ workers[w].pc = "publish" /\ workers[w].res = "addr"
          /\ workers[w].nctrl = 1 /\ workers[w].nprobe = 1

\* ---------------------------------------------------- the shutdown path
LoopStopped == loopPc \in {"done", "crashed"}

\* C7: once the shutdown signal is set the loop thread eventually ends; at
\* the top of an iteration with the signal set it ends instead of going on;
\* and once ended it stays ended and queues no further rotation.
C7_LoopStopsAfterShutdownSignal ==
    /\ stop_event ~> LoopStopped
    /\ [][ /\ (loopPc = "top" /\ stop_event /\ loopPc' # "top")
                => loopPc' = "done"
           /\ (stop_event /\ LoopStopped)
                => (loopPc' = loopPc /\ Len(queue') <= Len(queue))
         ]_vars

\* C7 witness: rotation was switched off when the signal was set, one second
\* after the start; the loop has ended.
C7_Witness ==
    /\ stop_event /\ loopPc = "done"
    /\ configured /\ ~enabled /\ last_change = 0 /\ now = 1 * Second

\* How the latest cleanup invocation ended.
LastOutcome == outcomes[Len(outcomes)]

Starts == {"start_tor", "start_clash"}
Stops == {"stop_tor", "stop_clash"}

Handle(d) == IF d = "tor" THEN tor_process ELSE clash_process

\* C11: a start launches a process if and only if there is no handle or the
\* handle's process has exited (and the launch itself succeeds); so a start
\* on a live daemon makes no second process, each daemon has exactly one
\* live process when its handle is alive and none otherwise.
C11_StartLaunchesIffNoLiveProcess ==
    /\ last_call.op \in Starts =>
          /\ last_call.spawned => last_call.h0 \in {"None", "exited"}
          /\ (/\ last_call.h0 \in {"None", "exited"}
              /\ last_call.exe /\ last_call.rc /\ last_call.popen = "ok")
                => last_call.spawned /\ last_call.h1 = "alive"
          /\ last_call.h0 = "alive" => last_call.h1 = "alive"
    /\ \A d \in Daemons : running[d] = Count(Handle(d) = "alive")

\* A second start_tor on a live primary daemon has returned.
C11_Witness ==
    /\ last_call.op = "start_tor"
    /\ last_call.h0 = "alive"
    /\ last_call.exe /\ last_call.rc
    /\ tor_process = "alive"
    /\ running["tor"] = 1


\* C12: a start_tor on a live primary daemon is a no-op that returns
\* success, whatever the file system says about the executable and the
\* configuration file.
C12_StartOnLiveDaemonSucceeds ==
    (last_call.op = "start_tor" /\ last_call.h0 = "alive")
        => /\ last_call.ret
           /\ ~last_call.spawned
           /\ last_call.h1 = "alive"


\* The answers that make a start fail: a missing executable or (primary
\* daemon) configuration file, or a launch that is attempted and raises.
StartFails(c) ==
    \/ ~c.exe
    \/ ~c.rc
    \/ (c.h0 \in {"None", "exited"} /\ c.popen # "ok")

\* C13: when the executable or the configuration file is missing, or the
\* launch is refused or fails, the start returns failure, spawns nothing and
\* leaves the handle and the OS proxy setting as they were.
C13_FailedStartChangesNothing ==
    [][ (/\ last_call' # last_call
         /\ last_call'.op \in Starts
         /\ StartFails(last_call'))
          => /\ ~last_call'.ret
             /\ ~last_call'.spawned
             /\ UNCHANGED <<tor_process, clash_process, proxy, running>>
             /\ last_call'.h1 = last_call'.h0
             /\ last_call'.p1 = last_call'.p0 ]_vars

\* A start_clash on an exited handle with the proxy setting on was refused
\* by the OS.
C13_Witness ==
    /\ last_call.op = "start_clash"
    /\ last_call.h0 = "exited"
    /\ last_call.p0
    /\ last_call.popen = "PermissionError"
    /\ clash_process = "exited"


\* C14: stop_tor leaves the primary handle absent whether the process exited
\* on the terminate request, was killed after the timeout, had already
\* exited, or was never started; with no handle it signals nothing, raises
\* nothing and changes nothing.
C14_StopClearsHandle ==
    last_call.op = "stop_tor" =>
        /\ last_call.h0 = "alive"
              => last_call.outcome \in {"graceful", "forced", "kill_error",
                                        "stuck"}
        /\ last_call.h0 \in {"None", "exited"}
              => /\ last_call.outcome = "noop"
                 /\ ~last_call.terminated /\ ~last_call.killed
        /\ last_call.outcome \in {"graceful", "forced", "noop"}
              => /\ last_call.returned /\ ~last_call.raised
                 /\ last_call.h1 = "None"
                 /\ tor_process = "None"
                 /\ running["tor"] = 0

\* A stop_tor whose process had to be killed has returned.
C14_Witness ==
    /\ last_call.op = "stop_tor"
    /\ last_call.outcome = "forced"
    /\ last_call.killed
    /\ tor_process = "None"
    /\ running["tor"] = 0

\* C15: every stop returns: it asks the process to terminate, waits at most
\* PROCESS_KILL_TIMEOUT seconds, kills only after that timeout, and is not
\* held up by a process that does not exit once killed.
C15_StopAlwaysReturns ==
    last_call.op \in Stops =>
        /\ last_call.returned
        /\ last_call.waited <= PROCESS_KILL_TIMEOUT
        /\ last_call.killed => last_call.waited = PROCESS_KILL_TIMEOUT


C18_ConcurrentCallsSerialized ==
    /\ LiveCount(procs) <= 1
    /\ (\A t \in Threads : callers[t].pc = "idle")
          => \A i \in 1..Len(procs) : procs[i] = "alive" => tor_ref = i


\* ------------------------------------------------ the supervisor object
\* C19: every ProcessManager() returns the same instance, a RotatorState is
\* created only by the first one, and constructing the managers again after
\* a reconfiguration leaves the handles, the enabled flag and the interval
\* as they were.
C19_OneSupervisorOneState ==
    /\ \A i \in 1..Len(constructions) :
          /\ constructions[i].instance = 1
          /\ constructions[i].created <=> i = 1
          /\ i > 1 => constructions[i].state = constructions[i].before
    /\ [][ (setups' = setups + 1 /\ configured /\ uiPc' = "run")
             => /\ enabled' = enabled
                /\ interval_seconds' = interval_seconds
                /\ Len(constructions') = Len(constructions) + 1 ]_vars

\* The setup wizard finished on a configured application whose rotation was
\* switched off and whose interval was changed.
C19_Witness ==
    /\ setups = 1
    /\ Len(constructions) = 2
    /\ ~constructions[2].created
    /\ ~enabled
    /\ interval_seconds = 1 * Second

\* ------------------------------------------------------------ the probe
Retryable == {"HTTPError", "ProxyError", "RequestException"}

\* C20: get_ip always returns a value; when every request fails with a
\* retryable error it makes max_retries requests, sleeps after each of them
\* but the last (max_retries - 1 sleeps of initial_delay * 2^attempt), and
\* returns the sentinel.
C20_AllRetryableFailuresGiveSentinel ==
    last_call.op = "get_ip" =>
        /\ last_call.returned
        /\ last_call.result.ip \in {"addr", "malformed", "empty", "unknown"}
        /\ (\A i \in 1..max_retries : last_call.script[i] \in Retryable)
              => /\ last_call.result.ip = "unknown"
                 /\ last_call.result.attempts = max_retries
                 /\ Len(last_call.result.slept) = max_retries - 1
                 /\ \A a \in 1..(max_retries - 1) :
                       last_call.result.slept[a]
                           = initial_delay * (2 ^ (a - 1))

\* A get_ip whose requests failed with a proxy error, a request error and a
\* proxy error has returned.
C20_Witness ==
    /\ last_call.op = "get_ip"
    /\ last_call.script = <<"ProxyError", "RequestException", "ProxyError">>
    /\ last_call.result.ip = "unknown"
    /\ last_call.result.attempts = 3


\* The first k - 1 requests of the script fail with a retryable error.
RetryablePrefix(script, k) == \A i \in 1..(k - 1) : script[i] \in Retryable

\* C21: when the first k - 1 requests fail retryably and request k gets a
\* 2xx reply with an address, get_ip makes exactly k requests, sleeps
\* initial_delay * 2^(i-1) seconds before request i + 1 (1 s, then 2 s), and
\* returns the body of request k.
C21_SuccessAfterRetries ==
    last_call.op = "get_ip" =>
        \A k \in 1..max_retries :
           (RetryablePrefix(last_call.script, k) /\ last_call.script[k] = "ok")
              => /\ last_call.result.attempts = k
                 /\ last_call.result.from = k
                 /\ last_call.result.ip = "addr"
                 /\ Len(last_call.result.slept) = k - 1
                 /\ \A i \in 1..(k - 1) :
                       last_call.result.slept[i] = initial_delay * (2 ^ (i - 1))

\* A get_ip whose third request was the first to succeed has returned,
\* having slept 1 s and 2 s.
C21_Witness ==
    /\ last_call.op = "get_ip"
    /\ last_call.script = <<"ProxyError", "HTTPError", "ok">>
    /\ last_call.result.ip = "addr"
    /\ last_call.result.attempts = 3
    /\ last_call.result.slept = <<1, 2>>

\* C22: a failure that is not retryable ends get_ip at once: no request and
\* no sleep follows it, even when attempts remain, and the sentinel is
\* returned.
C22_NonRetryableAborts ==
    last_call.op = "get_ip" =>
        \A k \in 1..max_retries :
           (/\ RetryablePrefix(last_call.script, k)
            /\ last_call.script[k] = "Exception")
              => /\ last_call.result.attempts = k
                 /\ Len(last_call.result.slept) = k - 1
                 /\ last_call.result.ip = "unknown"
                 /\ last_call.result.from = 0

\* A get_ip whose first request raised an unexpected exception has returned
\* the sentinel, although the next two requests would have succeeded.
C22_Witness ==
    /\ last_call.op = "get_ip"
    /\ last_call.script = <<"Exception", "ok", "ok">>
    /\ last_call.result.ip = "unknown"
    /\ last_call.result.attempts = 1
    /\ last_call.result.slept = <<>>

\* C23: get_ip returns something other than the sentinel only when a
\* request got a 2xx reply whose body is a well-formed address; a non-2xx
\* reply, a malformed body and an empty body are errors.
C23_OnlyWellFormedAddressReturned ==
    last_call.op = "get_ip" =>
        /\ last_call.result.ip \in {"addr", "unknown"}
        /\ last_call.result.ip = "addr" =>
              /\ last_call.result.from \in 1..max_retries
              /\ last_call.script[last_call.result.from] = "ok"


\* -------------------------------------------------------- the validator
\* C24: validate succeeds exactly when the unit is seconds, minutes or hours
\* and the value lies in that unit's closed range (seconds [1, 86400],
\* minutes [0.01, 1440], hours [0.01, 24]); a value outside the range gives
\* the range error and an unknown unit gives the unknown-unit error.
C24_ValidateClosedRanges ==
    last_call.op = "validate" =>
        LET v == last_call.value
            u == last_call.unit
            inRange == \/ u = "sec" /\ 100 <= v /\ v <= 8640000
                       \/ u = "min" /\ 1 <= v /\ v <= 144000
                       \/ u = "hour" /\ 1 <= v /\ v <= 2400
        IN  /\ last_call.result = "ok" <=> inRange
            /\ u \notin {"sec", "min", "hour"}
                  => last_call.result = "unknown_unit"
            /\ (u \in {"sec", "min", "hour"} /\ ~inRange)
                  => last_call.result = "out_of_range"

\* validate has accepted 24 hours, the upper end of its range.
C24_Witness ==
    /\ last_call.op = "validate"
    /\ last_call.unit = "hour"
    /\ last_call.value = 2400
    /\ last_call.result = "ok"


\* The value of a to_seconds call lies in its unit's range (1/Fine
\* hundredths).
FloatInRange(v, u) ==
    \/ u = "sec" /\ 100 * Fine <= v /\ v <= 8640000 * Fine
    \/ u = "min" /\ 1 * Fine <= v /\ v <= 144000 * Fine
    \/ u = "hour" /\ 1 * Fine <= v /\ v <= 2400 * Fine

\* to_seconds(1, hours) = 3600, to_seconds(30, minutes) = 1800 and
\* to_seconds(90, seconds) = 90.
ToSecondsExamples ==
    /\ (last_call.unit = "hour" /\ last_call.value = 100 * Fine)
          => last_call.seconds = 360000 * Fine
    /\ (last_call.unit = "min" /\ last_call.value = 3000 * Fine)
          => last_call.seconds = 180000 * Fine
    /\ (last_call.unit = "sec" /\ last_call.value = 9000 * Fine)
          => last_call.seconds = 9000 * Fine

\* C25 as stated: to_seconds is the value times the unit's multiplier
\* (1, 60, 3600), and for a fixed unit it is strictly increasing in the
\* value over the valid range.
C25_ToSecondsStrictlyIncreasing ==
    last_call.op = "to_seconds" =>
        /\ ToSecondsExamples
        /\ (/\ FloatInRange(last_call.value, last_call.unit)
            /\ FloatInRange(last_call.value2, last_call.unit)
            /\ last_call.value < last_call.value2)
              => last_call.seconds < last_call.seconds2

\* C25, amended: to_seconds is the value times the unit's multiplier rounded
\* to a float; for a fixed unit it never decreases as the value grows over
\* the valid range, and it increases strictly between values at least 0.01
\* apart.
C25_ToSecondsNonDecreasing ==
    last_call.op = "to_seconds" =>
        /\ ToSecondsExamples
        /\ (/\ FloatInRange(last_call.value, last_call.unit)
            /\ FloatInRange(last_call.value2, last_call.unit)
            /\ last_call.value < last_call.value2)
              => /\ last_call.seconds <= last_call.seconds2
                 /\ last_call.value2 - last_call.value >= Fine
                       => last_call.seconds < last_call.seconds2

\* to_seconds has been called with two adjacent floats of hours in the
\* valid range and has returned the same number of seconds for both.
C25_Witness ==
    /\ last_call.op = "to_seconds"
    /\ last_call.unit = "hour"
    /\ last_call.value = 149136
    /\ last_call.value2 = 149137
    /\ last_call.seconds = last_call.seconds2


\* What IntervalValidator's ranges admit, in hundredths: 1 to 86400 seconds,
\* 0.01 to 1440 minutes, 0.01 to 24 hours.
ValidInput(inp) ==
    /\ inp.text = "num"
    /\ \/ inp.unit = "sec" /\ 100 <= inp.v /\ inp.v <= 8640000
       \/ inp.unit = "min" /\ 1 <= inp.v /\ inp.v <= 144000
       \/ inp.unit = "hour" /\ 1 <= inp.v /\ inp.v <= 2400

\* C26: a pressing of "apply" whose input is out of range, of an unknown
\* unit or not a number changes neither interval_seconds, nor enabled, nor
\* the two handles, sets no wake-up event (now or pending) and leaves the
\* loop where it was.
C26_RejectedInputChangesNothing ==
    [][ (/\ last_call' # last_call
         /\ last_call'.op = "apply_interval"
         /\ ~ValidInput(last_call'.input))
        => UNCHANGED <<interval_seconds, enabled, tor_process, clash_process,
                       rotation_event, uiPc, loopVars, stop_event>>
      ]_vars

\* C26 witness: with 2 s applied and the loop in its wait, an input of 25
\* hours was the last one pressed, and the loop still waits for second 2.
C26_Witness ==
    /\ last_call.op = "apply_interval"
    /\ last_call.input = [text |-> "num", v |-> 25 * Second, unit |-> "hour"]
    /\ interval_seconds = 2 * Second
    /\ loopPc = "wait" /\ ~rotation_event /\ uiPc = "run"
    /\ now = 1 * Second /\ wake_at = 2 * Second
    /\ enabled /\ tor_process = "alive" /\ clash_process = "alive"

\* C27: interval_seconds is positive and between 0.6 s (0.01 minutes) and
\* 86400 s (1440 minutes, 24 hours) in every state, the initial one and
\* those after accepted and rejected inputs.
C27_IntervalWithinPolicy ==
    /\ interval_seconds > 0
    /\ 60 <= interval_seconds
    /\ interval_seconds <= 86400 * Second

\* C27 witness: 0.05 minutes were applied, a rejected input followed, and
\* the interval is 3 s.
C27_Witness ==
    /\ last_call.op = "apply_interval"
    /\ ~ValidInput(last_call.input)
    /\ interval_seconds = 3 * Second
    /\ uiPc = "run"


\* C30: apply_interval returns with the interval written and the wake-up
\* event set; and whenever the loop's wait runs out its whole timeout while
\* no apply_interval is between its write and its set, that timeout had
\* been computed from the interval in force: the wait ends at last_change
\* plus the current interval_seconds.
C30_NoFullWaitOnOldInterval ==
    [][ /\ (uiPc = "apply_set" /\ uiPc' = "run")
             => (rotation_event' /\ interval_seconds' = interval_seconds)
        /\ (/\ loopPc = "wait" /\ loopPc' = "clear"
            /\ ~rotation_event
            /\ uiPc # "apply_set")
             => /\ wake_at = last_change + interval_seconds
                /\ now >= last_change + interval_seconds
      ]_vars

\* C30 witness: 2 s, then 1 s were applied before the loop's wait of the
\* default hour could run out; the loop was woken each time and has now
\* completed a wait of 1 s.
C30_Witness ==
    /\ last_call.op = "apply_interval"
    /\ last_call.input = [text |-> "num", v |-> 1 * Second, unit |-> "sec"]
    /\ interval_seconds = 1 * Second
    /\ loopPc = "clear" /\ ~rotation_event /\ uiPc = "run"
    /\ last_change = 0 /\ now = 1 * Second


\* C28: the loop comes to its submit only from the comparison of line 479,
\* with the time since the last scheduled rotation at least the interval it
\* read there; that time is still the same when it submits; and the timer
\* is reset by a scheduled submit only.  So no scheduled rotation is early,
\* whether the wait before it ran out or was interrupted.
C28_ScheduledOnlyWhenElapsed ==
    [][ /\ (loopPc # "submit" /\ loopPc' = "submit")
             => /\ loopPc = "chk_elapsed"
                /\ elapsed' = now - last_change
                /\ elapsed' >= interval_seconds
        /\ (loopPc = "submit" /\ loopPc' # "submit")
             => /\ elapsed = now - last_change
                /\ loopPc' \in {"rd_full", "crashed"}
        /\ (loopPc # "submit" \/ loopPc' # "rd_full")
             => last_change' = last_change
      ]_vars

\* C28 witness: 2 s were applied during the wait of the default hour, which
\* was interrupted; the loop waited on until second 2 and has just submitted
\* the rotation of second 2.
C28_Witness ==
    /\ loopPc = "rd_full"
    /\ interval_seconds = 2 * Second
    /\ last_change = 2 * Second /\ now = 2 * Second
    /\ uiPc = "run" /\ ~rotation_event
    /\ queue # <<>>


\* C29: when the loop fires a scheduled rotation after the "change IP now"
\* button was pressed, with the interval the same as at the pressing and no
\* newly applied interval on its way, at least interval_seconds have passed
\* since the pressing.
C29_ManualRotationReschedules ==
    (/\ loopPc = "submit"
     /\ last_call.op = "change_ip"
     /\ last_call.interval = interval_seconds
     /\ IntervalSettled)
    => now >= last_call.at + interval_seconds


\* ------------------------------------------------------- the worker pool
\* The pool threads that are carrying out an IP change.
InFlight == { w \in DOMAIN workers : workers[w].pc # "free" }

\* C31: at most two IP changes are in flight at any time; a submit only
\* appends to the pool's queue, whatever the pool threads are doing, and a
\* thread that is busy takes nothing from the queue; and the loop at its
\* submit can always take that step, so it goes on to its wait without
\* waiting for any task.
C31_PoolOfTwoNeverBlocksLoop ==
    /\ [](/\ Cardinality(InFlight) <= 2
          /\ (loopPc = "submit" /\ ~shutdown) => ENABLED rotator_submit)
    /\ [][ /\ Len(queue') > Len(queue)
                => (queue' = Append(queue, "change_ip") /\ workers' = workers)
           /\ Len(queue') < Len(queue)
                => \E w \in DOMAIN workers :
                      /\ workers[w].pc = "free" /\ workers'[w].pc # "free"
                      /\ \A v \in DOMAIN workers \ {w} :
                            workers'[v] = workers[v]
           /\ (loopPc = "submit" /\ loopPc' # "submit" /\ ~shutdown)
                => (loopPc' = "rd_full" /\ now' = now)
         ]_vars

\* C31 witness: two IP changes are in flight, one at its control-channel
\* exchange and one at its probe, a third is queued, and the loop, which
\* submitted it at second 2, is in its wait.
C31_Witness ==
    /\ workers[1].pc = "ctrl" /\ workers[2].pc = "probe"
    /\ Len(queue) = 1
    /\ loopPc = "wait" /\ last_change = 2 * Second /\ now = 2 * Second
    /\ interval_seconds = 1 * Second


\* The pool threads that are inside the execution of an IP change: at its
\* control-channel exchange or at its probe.
Executing == { w \in DOMAIN workers : workers[w].pc \in {"ctrl", "probe"} }

\* C32: when the "change IP now" button was pressed in the same second in
\* which the loop submitted a scheduled rotation, at most one pool thread
\* is inside an execution (exchange or probe) at a time.
C32_ManualAndScheduledSerialized ==
    (last_call.op = "change_ip" /\ last_change > 0
        /\ last_call.at = last_change)
    => Cardinality(Executing) <= 1


\* C33: a handle that is present refers to a live process: each handle is
\* either absent or alive, and a daemon that has a handle has exactly one
\* running process.
C33_PresentHandleIsLive ==
    \A d \in Daemons :
       /\ Handle(d) \in {"None", "alive"}
       /\ Handle(d) # "None" => running[d] = 1


\* C34: the loop submits a scheduled rotation only while rotation is
\* enabled: no submit step of the loop is taken with enabled false, that is
\* after a switch-off has returned and before the next switch-on.
C34_NoScheduledSubmitWhileDisabled ==
    [][ (loopPc = "submit" /\ loopPc' = "rd_full") => enabled ]_vars


\* ------------------------------------------------- enabled and the daemons
\* C35: whenever the application is configured, rotation is switched off
\* and no handler is running, both handles are absent and the OS proxy
\* setting is off.
C35_DisabledMeansStopped ==
    (configured /\ ~enabled /\ uiPc = "run")
    => /\ tor_process = "None" /\ clash_process = "None"
       /\ ~proxy


\* ------------------------------------------- cleanup without a supervisor
\* C36: on an application that was never configured every cleanup
\* invocation returns; and when a cleanup invocation has ended, configured
\* or not, the shutdown signal is set and the pool is shut down.
C36_CleanupNeverRaises ==
    \A i \in 1..Len(outcomes) :
       /\ ~configured => outcomes[i] = "returned"
       /\ stop_event /\ shutdown

=============================================================================
